---- MODULE Spec2Model ----
(***************************************************************************)
(* The side-scrolling flight game of flight_sim.py: SimplePlane,            *)
(* SimpleGround, ScoreManager, CollectibleManager and the loop of main.     *)
(*                                                                          *)
(* One step of the model is one iteration of the `while True` loop of main  *)
(* (an input read, the update phase, the collision phase, frame += 1), or    *)
(* the break on a quit key.  Drawing changes no state and is left out.       *)
(*                                                                          *)
(* altitude and velocity are floats in the source.  They are kept here in   *)
(* tenths of a row (Unit = 10), the resolution of the constants 0.3, 0.9    *)
(* and 1.0 of SimplePlane.update; the product with 0.9 is rounded to the    *)
(* nearest tenth.  time_survived is kept in hundredths of a second; the     *)
(* float sum of get_score truncates to the same integer as the exact sum    *)
(* for every frame below 2000.                                              *)
(*                                                                          *)
(* Spec is one run from its start under every input.  SpecLate is one run   *)
(* carried to the ticks where collectibles spawn.  SpecRuns is a sequence   *)
(* of runs over one score file.                                             *)
(***************************************************************************)
EXTENDS Integers, Sequences, FiniteSets, TLC

(* ------------------------------ bounds --------------------------------- *)
\* Ticks explored from the start of a run.
MaxFrame == 5
\* SpecLate holds 'w' for LateStart ticks, then explores LateTicks ticks under
\* every input.
LateStart == 98
LateTicks == 4
\* Screen heights (stdscr.getmaxyx): one too small to hold the clamp band,
\* one tall enough for the collectible spawn band.
SmallHeight == 4
GameHeight == 15
\* Screen width.
ScreenWidth == 2
\* High score found in the score file when a run starts.
StoredHigh == 3
\* Ticks explored in each run of SpecRuns.
RunFrames == 3
\* SpecField: the screen of the collectible field and the last tick passed to
\* CollectibleManager.update.
FieldWidth == 4
FieldHeight == 16
FieldMaxTick == 204
\* SpecHeld: two more screens and the ticks explored with one key held.
LowHeight == 12
TallHeight == 17
HeldTicks == 30
\* SpecClimb: the ticks explored with 'w' held.
ClimbTicks == 202
\* SpecWide: a screen wide enough for two collectibles, the ticks explored,
\* and the ticks at which every key may be pressed.
WideWidth == 102
WideTicks == 203
WideFreeFrom == 164
WideFreeTicks == 4

(* --------------------------- program constants ------------------------- *)
Unit == 10                 \* tenths of a row per row
Gravity == 3               \* gravity = 0.3
DragTenths == 9            \* velocity *= 0.9
MinAltitude == 2           \* if self.altitude < 2
BottomMargin == 3          \* screen_height - 3
MinGround == 3             \* random.randint(3, 8)
MaxGround == 8
ScrollPeriod == 2          \* if self.offset >= 2
DefaultGround == 5         \* get_height fallback
SpawnInterval == 100       \* self.spawn_interval
SpawnTop == 5              \* random.randint(5, self.height - 10)
SpawnBottomMargin == 10
CollectibleValue == 50     \* Collectible(x, y, value=50)
ReachX == 2                \* abs(item.x - plane_x) <= 2
ReachY == 1                \* abs(item.y - plane_y) <= 1
FrameCentis == 5           \* time_survived = frame_count * 0.05

VARIABLES
    height, width,                    \* stdscr.getmaxyx()
    altitude, velocity,               \* SimplePlane
    heights, offset,                  \* SimpleGround
    distance, time_survived,          \* ScoreManager
    high_score, sm_collectibles, bonus_points,
    score_file,                       \* the file .flight_sim_highscore.json
    cm_collectibles, last_spawn,      \* CollectibleManager
    pitch, frame, crashed, last_collect_frame,   \* locals of main
    pc,                               \* "loop": in main's loop; "ended": main has
                                      \* left it; "exited": the process is gone
    checks,                           \* history: check_high_score calls of this run
    shifts,                           \* history: terrain columns dropped in this run
    last_save                         \* history: how this run's save_high_score ended

vars == << height, width, altitude, velocity, heights, offset, distance,
           time_survived, high_score, sm_collectibles, bonus_points, score_file,
           cm_collectibles, last_spawn, pitch, frame, crashed,
           last_collect_frame, pc, checks, shifts, last_save >>

simvars == << altitude, velocity, heights, offset, distance, time_survived,
              high_score, sm_collectibles, bonus_points, score_file,
              cm_collectibles, last_spawn >>

(* ------------------------------ helpers -------------------------------- *)
\* main is in its `while True` loop.
running == pc = "loop"

Abs(n) == IF n < 0 THEN -n ELSE n

\* n/d rounded to the nearest integer (d > 0).
Round(n, d) == (2 * n + d) \div (2 * d)

Keys == {"w", "s", "other"}

\* main: pitch = 0; 'w' -> 1; 's' -> -1
PitchOf(key) == IF key = "w" THEN 1 ELSE IF key = "s" THEN -1 ELSE 0

(* ----------------------------- SimplePlane ----------------------------- *)
\* Clamp with the lower clamp one row too low (screen_height - 2).
ClampOneRowLow(alt, vel, sh) ==
    LET lo == IF alt < MinAltitude * Unit
              THEN [altitude |-> MinAltitude * Unit, velocity |-> 0]
              ELSE [altitude |-> alt, velocity |-> vel]
    IN  IF lo.altitude > (sh - BottomMargin + 1) * Unit
        THEN [altitude |-> (sh - BottomMargin + 1) * Unit, velocity |-> 0]
        ELSE lo

\* The two clamps of SimplePlane.update, in the order of the source.
Clamp(alt, vel, sh) ==
    LET lo == IF alt < MinAltitude * Unit
              THEN [altitude |-> MinAltitude * Unit, velocity |-> 0]
              ELSE [altitude |-> alt, velocity |-> vel]
    IN  IF lo.altitude > (sh - BottomMargin) * Unit
        THEN [altitude |-> (sh - BottomMargin) * Unit, velocity |-> 0]
        ELSE lo

\* PlaneUpdate without the pull of gravity.
PlaneUpdateNoGravity(alt, vel, pitch_input, sh) ==
    LET v1 == vel + pitch_input * Unit
        v2 == Round(v1 * DragTenths, Unit)
    IN  Clamp(alt - v2, v2, sh)

\* SimplePlane.update(pitch_input)
PlaneUpdate(alt, vel, pitch_input, sh) ==
    LET v1 == vel + pitch_input * Unit - Gravity
        v2 == Round(v1 * DragTenths, Unit)
    IN  Clamp(alt - v2, v2, sh)

(* ----------------------------- SimpleGround ---------------------------- *)
\* Terrain that may be as low as one row.
GroundHeightsShallow == 1 .. MaxGround

\* The heights random.randint(3, 8) can draw.
GroundHeights == MinGround .. MaxGround

\* Scroll that appends the new column without dropping the first.
ScrollNoPop(hs, off, h) ==
    IF off + 1 >= ScrollPeriod
    THEN [heights |-> Append(hs, h), offset |-> 0, shifted |-> 1]
    ELSE [heights |-> hs, offset |-> off + 1, shifted |-> 0]

\* SimpleGround.scroll(); h is the height random.randint draws.
Scroll(hs, off, h) ==
    IF off + 1 >= ScrollPeriod
    THEN [heights |-> Append(Tail(hs), h), offset |-> 0, shifted |-> 1]
    ELSE [heights |-> hs, offset |-> off + 1, shifted |-> 0]

\* SimpleGround.get_height(x), x counted from 0
GetHeight(hs, x) == IF 0 <= x /\ x < Len(hs) THEN hs[x + 1] ELSE DefaultGround

(* ----------------------------- ScoreManager ---------------------------- *)
AbsentFile == [kind |-> "absent", value |-> 0]
CorruptFile == [kind |-> "corrupt", value |-> 0]
ValidFile(n) == [kind |-> "valid", value |-> n]

\* What the file holds for a reader: the stored number, 0 without one.
Persisted(f) == IF f.kind = "valid" THEN f.value ELSE 0

\* ScoreManager.load_high_score(); readOk is whether open and json.load succeed.
LoadHighScore(f, readOk) ==
    IF f.kind = "absent" THEN 0
    ELSE IF f.kind = "valid" /\ readOk THEN f.value
    ELSE 0

SaveOutcomes == {"saved", "open_fails", "write_fails"}

\* ScoreManager.save_high_score(); open(.., 'w') truncates before json.dump writes.
SaveHighScore(f, hs, io) ==
    IF io = "saved" THEN ValidFile(hs)
    ELSE IF io = "open_fails" THEN f
    ELSE CorruptFile

\* ScoreUpdate whose distance rounds half a column up.
ScoreUpdateRoundUp(frame_count) ==
    [distance |-> (frame_count + 1) \div 2, time_survived |-> frame_count * FrameCentis]

\* ScoreManager.update(frame_count); time_survived in hundredths of a second
ScoreUpdate(frame_count) ==
    [distance |-> frame_count \div 2, time_survived |-> frame_count * FrameCentis]

\* AddCollectible that takes the points off the bonus.
AddCollectibleSpend(count, bonus, points) ==
    [collectibles |-> count + 1, bonus_points |-> bonus - points]

\* ScoreManager.add_collectible(points)
AddCollectible(count, bonus, points) ==
    [collectibles |-> count + 1, bonus_points |-> bonus + points]

\* ScoreManager.get_score(); d distance, t time_survived in hundredths, b bonus
GetScore(d, t, b) == (d * 100 + t * 10 + b * 100) \div 100

\* CheckHighScore without the comparison: every check overwrites.
CheckHighScoreAlways(score, hs, f, io) ==
    [high_score |-> score, score_file |-> SaveHighScore(f, score, io), result |-> TRUE]

\* ScoreManager.check_high_score()
CheckHighScore(score, hs, f, io) ==
    IF score > hs
    THEN [high_score |-> score, score_file |-> SaveHighScore(f, score, io), result |-> TRUE]
    ELSE [high_score |-> hs, score_file |-> f, result |-> FALSE]

(* -------------------------- CollectibleManager ------------------------- *)
\* CollectibleManager.update's filter: the items still on screen and active, in order.
SelectOnScreen(s) == SelectSeq(s, LAMBDA c : c.x >= 0)

RECURSIVE SelectItems(_)
SelectItems(s) ==
    IF s = << >> THEN << >>
    ELSE IF Head(s).x >= 0 /\ Head(s).active
         THEN << Head(s) >> \o SelectItems(Tail(s))
         ELSE SelectItems(Tail(s))

\* Collectible.scroll() on every item
ScrollItems(s) == [i \in 1 .. Len(s) |-> [s[i] EXCEPT !.x = @ - 1]]

\* SpawnBand that falls back to the top row when the screen is too low.
SpawnBandClamped(sh) ==
    IF sh - SpawnBottomMargin < SpawnTop THEN {SpawnTop}
    ELSE SpawnTop .. (sh - SpawnBottomMargin)

\* The rows random.randint(5, self.height - 10) can draw.
SpawnBand(sh) == SpawnTop .. (sh - SpawnBottomMargin)

\* CollectibleManager.spawn(); y is the row random.randint draws.
SpawnItem(s, w, y) ==
    Append(s, [x |-> w - 1, y |-> y, value |-> CollectibleValue, active |-> TRUE])

\* Index of the first active item within reach of (px, py), 0 if none.
RECURSIVE FirstHit(_, _, _, _)
FirstHit(s, i, px, py) ==
    IF i > Len(s) THEN 0
    ELSE IF s[i].active /\ Abs(s[i].x - px) <= ReachX /\ Abs(s[i].y - py) <= ReachY
         THEN i
         ELSE FirstHit(s, i + 1, px, py)

CheckCollisionAll(s, px, py) ==
    LET hit(i) == s[i].active /\ Abs(s[i].x - px) <= ReachX /\ Abs(s[i].y - py) <= ReachY
        i == FirstHit(s, 1, px, py)
    IN  IF i = 0 THEN [points |-> 0, items |-> s]
        ELSE [points |-> s[i].value,
              items |-> [k \in 1 .. Len(s) |->
                           IF hit(k) THEN [s[k] EXCEPT !.active = FALSE] ELSE s[k]]]

\* CollectibleManager.check_collision(plane_x, plane_y)
CheckCollision(s, px, py) ==
    LET i == FirstHit(s, 1, px, py)
    IN  IF i = 0 THEN [points |-> 0, items |-> s]
        ELSE [points |-> s[i].value, items |-> [s EXCEPT ![i].active = FALSE]]

(* ------------------------------- main ---------------------------------- *)
ScreenHeights == {SmallHeight, GameHeight}
StartFiles == {AbsentFile, ValidFile(StoredHigh)}

\* The state main builds before its loop, on a screen of sh rows and w columns,
\* with terrain hs and the score file f (readOk: the file can be read).
Construct(sh, w, hs, f, readOk) ==
    /\ height' = sh
    /\ width' = w
    /\ altitude' = (sh \div 2) * Unit
    /\ velocity' = 0
    /\ heights' = hs
    /\ offset' = 0
    /\ distance' = 0
    /\ time_survived' = 0
    /\ high_score' = LoadHighScore(f, readOk)
    /\ sm_collectibles' = 0
    /\ bonus_points' = 0
    /\ score_file' = f
    /\ cm_collectibles' = << >>
    /\ last_spawn' = 0
    /\ pitch' = 0
    /\ frame' = 0
    /\ crashed' = FALSE
    /\ last_collect_frame' = -10
    /\ pc' = "loop"
    /\ checks' = 0
    /\ shifts' = 0
    /\ last_save' = "none"

Init ==
    /\ height \in ScreenHeights
    /\ width = ScreenWidth
    /\ altitude = (height \div 2) * Unit
    /\ velocity = 0
    /\ heights \in [1 .. width -> GroundHeights]
    /\ offset = 0
    /\ distance = 0
    /\ time_survived = 0
    /\ score_file \in StartFiles
    /\ \E readOk \in BOOLEAN : high_score = LoadHighScore(score_file, readOk)
    /\ sm_collectibles = 0
    /\ bonus_points = 0
    /\ cm_collectibles = << >>
    /\ last_spawn = 0
    /\ pitch = 0
    /\ frame = 0
    /\ crashed = FALSE
    /\ last_collect_frame = -10
    /\ pc = "loop"
    /\ checks = 0
    /\ shifts = 0
    /\ last_save = "none"

\* Quit that counts the tick before it ends the loop.
QuitNextTick ==
    /\ running
    /\ pc' = "ended"
    /\ frame' = frame + 1
    /\ UNCHANGED << height, width, simvars, pitch, crashed,
                    last_collect_frame, checks, shifts, last_save >>

\* main, the break on 'q' or 'Q'
Quit ==
    /\ running
    /\ pc' = "ended"
    /\ UNCHANGED << height, width, simvars, pitch, frame, crashed,
                    last_collect_frame, checks, shifts, last_save >>

\* CrashedStep in which the 'w' key clears the crashed flag.
CrashedStepRecover(key) ==
    /\ pitch' = PitchOf(key)
    /\ frame' = frame + 1
    /\ crashed' = (key # "w")
    /\ UNCHANGED << height, width, simvars, last_collect_frame,
                    pc, checks, shifts, last_save >>

\* CrashedStep in which plane.update still runs.
CrashedStepUpdating(key) ==
    /\ pitch' = PitchOf(key)
    /\ frame' = frame + 1
    /\ altitude' = PlaneUpdate(altitude, velocity, PitchOf(key), height).altitude
    /\ velocity' = PlaneUpdate(altitude, velocity, PitchOf(key), height).velocity
    /\ UNCHANGED << height, width, heights, offset, distance, time_survived,
                    high_score, sm_collectibles, bonus_points, score_file,
                    cm_collectibles, last_spawn, crashed, last_collect_frame,
                    pc, checks, shifts, last_save >>

\* CrashedStep in which the ground test and check_high_score still run.
CrashedStepChecking(key) ==
    /\ pitch' = PitchOf(key)
    /\ frame' = frame + 1
    /\ checks' = checks + 1
    /\ UNCHANGED << height, width, simvars, crashed, last_collect_frame,
                    pc, shifts, last_save >>

\* A loop iteration with crashed set: both `if not crashed` blocks are skipped.
CrashedStep(key) ==
    /\ pitch' = PitchOf(key)
    /\ frame' = frame + 1
    /\ UNCHANGED << height, width, simvars, crashed, last_collect_frame,
                    pc, checks, shifts, last_save >>

\* HitsGround without the one-row margin.
HitsGroundTouching(plane_y, ground_top_y) == plane_y >= ground_top_y

\* main's ground test: if plane_y >= ground_top_y - 1
HitsGround(plane_y, ground_top_y) == plane_y >= ground_top_y - 1

\* ScrollDue without the even-frame test: scroll() on every tick.
ScrollEveryFrame(f) == TRUE

\* main's `if frame % 2 == 0` around ground.scroll()
ScrollDue(f) == f % 2 = 0

\* SpawnDue at half the interval.
SpawnDueHalf(f, last) == f - last >= SpawnInterval \div 2

\* SpawnDue that waits one tick longer.
SpawnDueLate(f, last) == f - last > SpawnInterval

\* CollectibleManager.update's `if frame_count - self.last_spawn >= self.spawn_interval`
SpawnDue(f, last) == f - last >= SpawnInterval

\* FlyingStep in which the score is recomputed after the collectible update.
FlyingStepScoreLast(key, h, y, io) ==
    LET p == PitchOf(key)
        pl == PlaneUpdate(altitude, velocity, p, height)
        gr == IF ScrollDue(frame) THEN Scroll(heights, offset, h)
              ELSE [heights |-> heights, offset |-> offset, shifted |-> 0]
        sc == ScoreUpdate(frame)
        d == sc.distance
        t == sc.time_survived
        kept == SelectItems(ScrollItems(cm_collectibles))
        due == SpawnDue(frame, last_spawn)
    IN  /\ pitch' = p
        /\ altitude' = pl.altitude
        /\ velocity' = pl.velocity
        /\ heights' = gr.heights
        /\ offset' = gr.offset
        /\ shifts' = shifts + gr.shifted
        /\ UNCHANGED << height, width >>
        /\ IF due /\ SpawnBand(height) = {}
           THEN \* random.randint(5, height - 10) raises ValueError: main ends
                /\ cm_collectibles' = kept
                /\ pc' = "ended"
                /\ UNCHANGED << distance, time_survived, high_score,
                                sm_collectibles, bonus_points,
                                score_file, last_spawn, frame, crashed,
                                last_collect_frame, checks, last_save >>
           ELSE LET items == IF due THEN SpawnItem(kept, width, y) ELSE kept
                    plane_x == width \div 3
                    plane_y == pl.altitude \div Unit
                    ground_top_y == height - GetHeight(gr.heights, plane_x)
                    col == CheckCollision(items, plane_x, plane_y)
                    got == IF col.points > 0
                           THEN AddCollectible(sm_collectibles, bonus_points, col.points)
                           ELSE [collectibles |-> sm_collectibles,
                                 bonus_points |-> bonus_points]
                    bonus == got.bonus_points
                    hit == HitsGround(plane_y, ground_top_y)
                    chk == CheckHighScore(GetScore(d, t, bonus), high_score,
                                          score_file, io)
                IN  /\ due \/ y = SpawnTop
                    /\ (hit /\ chk.result) \/ io = "saved"
                    /\ distance' = d
                    /\ time_survived' = t
                    /\ last_spawn' = IF due THEN frame ELSE last_spawn
                    /\ cm_collectibles' = col.items
                    /\ bonus_points' = bonus
                    /\ sm_collectibles' = got.collectibles
                    /\ last_collect_frame' = IF col.points > 0 THEN frame
                                             ELSE last_collect_frame
                    /\ crashed' = hit
                    /\ high_score' = IF hit THEN chk.high_score ELSE high_score
                    /\ score_file' = IF hit THEN chk.score_file ELSE score_file
                    /\ checks' = IF hit THEN checks + 1 ELSE checks
                    /\ last_save' = IF hit /\ chk.result THEN io ELSE last_save
                    /\ frame' = frame + 1
                    /\ UNCHANGED pc

\* A loop iteration with crashed clear: the update phase, then the collision
\* phase. h, y are the draws of random.randint, io the outcome of the save.
FlyingStep(key, h, y, io) ==
    LET p == PitchOf(key)
        pl == PlaneUpdate(altitude, velocity, p, height)
        gr == IF ScrollDue(frame) THEN Scroll(heights, offset, h)
              ELSE [heights |-> heights, offset |-> offset, shifted |-> 0]
        sc == ScoreUpdate(frame)
        d == sc.distance
        t == sc.time_survived
        kept == SelectItems(ScrollItems(cm_collectibles))
        due == SpawnDue(frame, last_spawn)
    IN  /\ pitch' = p
        /\ altitude' = pl.altitude
        /\ velocity' = pl.velocity
        /\ heights' = gr.heights
        /\ offset' = gr.offset
        /\ shifts' = shifts + gr.shifted
        /\ distance' = d
        /\ time_survived' = t
        /\ UNCHANGED << height, width >>
        /\ IF due /\ SpawnBand(height) = {}
           THEN \* random.randint(5, height - 10) raises ValueError: main ends
                /\ cm_collectibles' = kept
                /\ pc' = "ended"
                /\ UNCHANGED << high_score, sm_collectibles, bonus_points,
                                score_file, last_spawn, frame, crashed,
                                last_collect_frame, checks, last_save >>
           ELSE LET items == IF due THEN SpawnItem(kept, width, y) ELSE kept
                    plane_x == width \div 3
                    plane_y == pl.altitude \div Unit
                    ground_top_y == height - GetHeight(gr.heights, plane_x)
                    col == CheckCollision(items, plane_x, plane_y)
                    got == IF col.points > 0
                           THEN AddCollectible(sm_collectibles, bonus_points, col.points)
                           ELSE [collectibles |-> sm_collectibles,
                                 bonus_points |-> bonus_points]
                    bonus == got.bonus_points
                    hit == HitsGround(plane_y, ground_top_y)
                    chk == CheckHighScore(GetScore(d, t, bonus), high_score,
                                          score_file, io)
                IN  /\ due \/ y = SpawnTop
                    /\ (hit /\ chk.result) \/ io = "saved"
                    /\ last_spawn' = IF due THEN frame ELSE last_spawn
                    /\ cm_collectibles' = col.items
                    /\ bonus_points' = bonus
                    /\ sm_collectibles' = got.collectibles
                    /\ last_collect_frame' = IF col.points > 0 THEN frame
                                             ELSE last_collect_frame
                    /\ crashed' = hit
                    /\ high_score' = IF hit THEN chk.high_score ELSE high_score
                    /\ score_file' = IF hit THEN chk.score_file ELSE score_file
                    /\ checks' = IF hit THEN checks + 1 ELSE checks
                    /\ last_save' = IF hit /\ chk.result THEN io ELSE last_save
                    /\ frame' = frame + 1
                    /\ UNCHANGED pc

\* One iteration of main's loop on a key other than quit; cap bounds the ticks
\* the model explores.
Tick(cap, key, h, y, io) ==
    /\ running
    /\ frame < cap
    /\ IF crashed
       THEN h = MinGround /\ y = SpawnTop /\ io = "saved" /\ CrashedStep(key)
       ELSE /\ (ScrollDue(frame) /\ offset + 1 >= ScrollPeriod) \/ h = MinGround
            /\ FlyingStep(key, h, y, io)

\* The process exits after main has ended: its objects are gone (their
\* variables take the values of an unstarted program), the score file stays.
Exit ==
    /\ pc = "ended"
    /\ pc' = "exited"
    /\ altitude' = 0
    /\ velocity' = 0
    /\ heights' = << >>
    /\ offset' = 0
    /\ distance' = 0
    /\ time_survived' = 0
    /\ high_score' = 0
    /\ sm_collectibles' = 0
    /\ bonus_points' = 0
    /\ cm_collectibles' = << >>
    /\ last_spawn' = 0
    /\ pitch' = 0
    /\ frame' = 0
    /\ crashed' = FALSE
    /\ last_collect_frame' = -10
    /\ checks' = 0
    /\ shifts' = 0
    /\ last_save' = "none"
    /\ UNCHANGED << height, width, score_file >>

\* The program is started again on the same screen and score file.
Restart ==
    /\ pc = "exited"
    /\ \E hs \in [1 .. width -> GroundHeights], readOk \in BOOLEAN :
          Construct(height, width, hs, score_file, readOk)

Next ==
    \/ Quit
    \/ \E key \in Keys, h \in GroundHeights,
          y \in SpawnBand(height) \cup {SpawnTop}, io \in SaveOutcomes :
          Tick(MaxFrame, key, h, y, io)

Spec == Init /\ [][Next]_vars

\* A run on the tall screen that reaches the ticks where collectibles spawn:
\* 'w' is held for the first LateStart ticks (the plane climbs to the upper
\* clamp and rests there), every key, quit included, may follow.
LateKeys == IF frame < LateStart THEN {"w"} ELSE Keys

InitLate == Init /\ height = GameHeight /\ score_file = AbsentFile

NextLate ==
    \/ frame >= LateStart /\ Quit
    \/ \E key \in LateKeys, h \in GroundHeights,
          y \in SpawnBand(height) \cup {SpawnTop}, io \in SaveOutcomes :
          Tick(LateStart + LateTicks, key, h, y, io)

SpecLate == InitLate /\ [][NextLate]_vars

\* Successive runs of the program over one score file.
NextRuns ==
    \/ Quit
    \/ \E key \in Keys, h \in GroundHeights,
          y \in SpawnBand(height) \cup {SpawnTop}, io \in SaveOutcomes :
          Tick(RunFrames, key, h, y, io)
    \/ Exit
    \/ Restart

SpecRuns == Init /\ [][NextRuns]_vars

\* Runs in which one key, 'w' or none, is held from the first tick on and quit
\* is never pressed. The loop keeps iterating: getch returns after its
\* timeout whether or not a key is down.
HeldHeights == {SmallHeight, LowHeight, GameHeight, TallHeight}

HeldKeys == IF frame = 0 THEN {"w", "other"}
            ELSE {k \in {"w", "other"} : PitchOf(k) = pitch}

InitHeld ==
    /\ height \in HeldHeights
    /\ width = ScreenWidth
    /\ altitude = (height \div 2) * Unit
    /\ velocity = 0
    /\ heights \in [1 .. width -> GroundHeights]
    /\ offset = 0
    /\ distance = 0
    /\ time_survived = 0
    /\ score_file = AbsentFile
    /\ high_score = LoadHighScore(score_file, TRUE)
    /\ sm_collectibles = 0
    /\ bonus_points = 0
    /\ cm_collectibles = << >>
    /\ last_spawn = 0
    /\ pitch = 0
    /\ frame = 0
    /\ crashed = FALSE
    /\ last_collect_frame = -10
    /\ pc = "loop"
    /\ checks = 0
    /\ shifts = 0
    /\ last_save = "none"

NextHeld ==
    \E key \in HeldKeys, h \in GroundHeights,
       y \in SpawnBand(height) \cup {SpawnTop}, io \in SaveOutcomes :
       Tick(HeldTicks, key, h, y, io)

SpecHeld == InitHeld /\ [][NextHeld]_vars /\ WF_vars(NextHeld)

\* Runs with 'w' held on the two middle screens, long enough to pass the
\* ticks at which collectibles spawn.
InitClimb == InitHeld /\ height \in {LowHeight, GameHeight}

NextClimb ==
    \E h \in GroundHeights, y \in SpawnBand(height) \cup {SpawnTop},
       io \in SaveOutcomes :
       Tick(ClimbTicks, "w", h, y, io)

SpecClimb == InitClimb /\ [][NextClimb]_vars

\* Runs on a screen more than 100 columns wide, where a collectible is still
\* on screen when the next one spawns. The terrain is level (every draw of
\* randint gives the height of the first draw); 'w' is held except for the
\* ticks from WideFreeFrom on, when the first collectible passes the plane
\* and every key may be pressed.
InitWide ==
    /\ height = GameHeight
    /\ width = WideWidth
    /\ altitude = (height \div 2) * Unit
    /\ velocity = 0
    /\ heights \in {[i \in 1 .. width |-> g] : g \in GroundHeights}
    /\ offset = 0
    /\ distance = 0
    /\ time_survived = 0
    /\ score_file = AbsentFile
    /\ high_score = LoadHighScore(score_file, TRUE)
    /\ sm_collectibles = 0
    /\ bonus_points = 0
    /\ cm_collectibles = << >>
    /\ last_spawn = 0
    /\ pitch = 0
    /\ frame = 0
    /\ crashed = FALSE
    /\ last_collect_frame = -10
    /\ pc = "loop"
    /\ checks = 0
    /\ shifts = 0
    /\ last_save = "none"

WideKeys == IF frame \in WideFreeFrom .. (WideFreeFrom + WideFreeTicks - 1)
            THEN Keys ELSE {"w"}

WideDraws == IF ~crashed /\ ScrollDue(frame) /\ offset + 1 >= ScrollPeriod
             THEN {heights[1]} ELSE {MinGround}

NextWide ==
    \E key \in WideKeys, h \in WideDraws,
       y \in SpawnBand(height) \cup {SpawnTop}, io \in SaveOutcomes :
       Tick(WideTicks, key, h, y, io)

SpecWide == InitWide /\ [][NextWide]_vars

(* ------------------- the collectible field on its own ------------------ *)
\* SpecField drives CollectibleManager the way main does (update, then
\* check_collision at the plane's cell and add_collectible), but with any
\* plane row and with ticks that may skip a spawn interval, so that several
\* collectibles lie within reach of the plane at once.  frame is the tick of
\* the last update.
InitField ==
    /\ height = FieldHeight
    /\ width = FieldWidth
    /\ altitude = (height \div 2) * Unit
    /\ velocity = 0
    /\ heights = [i \in 1 .. width |-> MinGround]
    /\ offset = 0
    /\ distance = 0
    /\ time_survived = 0
    /\ score_file = AbsentFile
    /\ high_score = 0
    /\ sm_collectibles = 0
    /\ bonus_points = 0
    /\ cm_collectibles = << >>
    /\ last_spawn = 0
    /\ pitch = 0
    /\ frame = 0
    /\ crashed = FALSE
    /\ last_collect_frame = -10
    /\ pc = "loop"
    /\ checks = 0
    /\ shifts = 0
    /\ last_save = "none"

\* CollectibleManager.update(t) with t = frame + jump; y is the row spawn draws.
FieldUpdate(jump, y) ==
    LET t == frame + jump
        kept == SelectItems(ScrollItems(cm_collectibles))
        due == SpawnDue(t, last_spawn)
    IN  /\ running
        /\ t <= FieldMaxTick
        /\ due \/ y = SpawnTop
        /\ IF due /\ SpawnBand(height) = {}
           THEN /\ cm_collectibles' = kept
                /\ pc' = "ended"
                /\ UNCHANGED << last_spawn, frame >>
           ELSE /\ cm_collectibles' = IF due THEN SpawnItem(kept, width, y) ELSE kept
                /\ last_spawn' = IF due THEN t ELSE last_spawn
                /\ frame' = t
                /\ UNCHANGED pc
        /\ UNCHANGED << height, width, altitude, velocity, heights, offset,
                        distance, time_survived, high_score, sm_collectibles,
                        bonus_points, score_file, pitch, crashed,
                        last_collect_frame, checks, shifts, last_save >>

FieldRows == (SpawnTop - ReachY - 1) .. (FieldHeight - SpawnBottomMargin + ReachY + 1)

\* The plane is put on another row.
FieldMove(row) ==
    /\ running
    /\ altitude # row * Unit
    /\ altitude' = row * Unit
    /\ UNCHANGED << height, width, velocity, heights, offset, distance,
                    time_survived, high_score, sm_collectibles, bonus_points,
                    score_file, cm_collectibles, last_spawn, pitch, frame,
                    crashed, last_collect_frame, pc, checks, shifts, last_save >>

\* main's collectible collision: check_collision at the plane's cell, then
\* add_collectible and last_collect_frame when it returns points.
FieldCollide ==
    LET plane_x == width \div 3
        plane_y == altitude \div Unit
        col == CheckCollision(cm_collectibles, plane_x, plane_y)
        got == IF col.points > 0
               THEN AddCollectible(sm_collectibles, bonus_points, col.points)
               ELSE [collectibles |-> sm_collectibles, bonus_points |-> bonus_points]
    IN  /\ running
        /\ cm_collectibles' = col.items
        /\ bonus_points' = got.bonus_points
        /\ sm_collectibles' = got.collectibles
        /\ last_collect_frame' = IF col.points > 0 THEN frame ELSE last_collect_frame
        /\ UNCHANGED << height, width, altitude, velocity, heights, offset,
                        distance, time_survived, high_score, score_file,
                        last_spawn, pitch, frame, crashed, pc, checks, shifts,
                        last_save >>

NextField ==
    \/ \E jump \in {1, SpawnInterval}, y \in SpawnBand(height) \cup {SpawnTop} :
          FieldUpdate(jump, y)
    \/ \E row \in FieldRows : FieldMove(row)
    \/ FieldCollide

SpecField == InitField /\ [][NextField]_vars

(* ------------------------------ properties ----------------------------- *)
\* ScoreManager.get_score() in the current state
Score == GetScore(distance, time_survived, bonus_points)

\* A loop iteration has run after the one that crashed: the ledger's time is
\* older than the last tick.
TickedAfterCrash == crashed /\ time_survived < (frame - 1) * FrameCentis

\* C1 (as stated): for every screen height, 2 <= altitude <= screenHeight - 3
\* in the initial state and in every reachable state.
C1_AltitudeInBand == 2 * Unit <= altitude /\ altitude <= (height - 3) * Unit

\* C1 (amended): on a screen of at least 5 rows, 2 <= altitude <=
\* screenHeight - 3 in the initial state and after every SimplePlane.update.
C1_AltitudeInBandFrom5 == height >= 5 => C1_AltitudeInBand

\* The plane has been pushed into the lower clamp of a playable screen.
C1_Witness ==
    /\ height >= 5
    /\ frame > 0
    /\ altitude = (height - 3) * Unit
    /\ velocity = 0
    /\ pitch = -1

\* C2: the crashed flag is one-way: a step taken in Crashed ends in Crashed.
C2_CrashedOneWay == [][crashed => crashed']_vars

\* A crashed run that was ticked again and then quit.
C2_Witness == TickedAfterCrash /\ ~running

\* C3: while Crashed every step leaves plane, terrain, collectibles and the
\* score ledger as they were at the crash tick, whatever key is read.
C3_CrashedFrozen ==
    [][crashed => /\ altitude' = altitude
                  /\ velocity' = velocity
                  /\ heights' = heights
                  /\ offset' = offset
                  /\ cm_collectibles' = cm_collectibles
                  /\ last_spawn' = last_spawn
                  /\ distance' = distance
                  /\ time_survived' = time_survived
                  /\ bonus_points' = bonus_points
                  /\ sm_collectibles' = sm_collectibles
                  /\ high_score' = high_score]_vars

\* A crashed run with a collectible on screen was ticked with a pitch key.
C3_Witness ==
    /\ TickedAfterCrash
    /\ pitch # 0
    /\ Len(cm_collectibles) > 0
    /\ cm_collectibles[1].active

\* C4: check_high_score runs exactly once in a run that crashes, in the step
\* from Flying to Crashed; every other step (a Flying tick, a Crashed tick, a
\* quit) runs no check and leaves the high score and the score file alone.
C4_CheckOnlyAtCrash ==
    /\ [](checks = IF crashed THEN 1 ELSE 0)
    /\ [][\/ ~crashed /\ crashed' /\ checks' = checks + 1
          \/ /\ crashed' = crashed
             /\ checks' = checks
             /\ high_score' = high_score
             /\ score_file' = score_file]_vars

\* A run crashed above its high score, saved it, was ticked again and quit.
C4_Witness ==
    /\ TickedAfterCrash
    /\ ~running
    /\ checks = 1
    /\ last_save = "saved"
    /\ score_file = ValidFile(Score)

\* C5: a Flying tick ends Crashed exactly when
\* floor(altitude) >= (screenHeight - terrain height at screenWidth div 3) - 1.
C5_CrashIffGroundHit ==
    [][(running /\ ~crashed /\ frame' = frame + 1) =>
         (crashed' <=> (altitude' \div Unit >=
                          (height - GetHeight(heights', width \div 3)) - 1))]_vars

\* The plane crashed sitting exactly one row above the ground top.
C5_Witness ==
    /\ crashed
    /\ height >= 5
    /\ altitude \div Unit = (height - GetHeight(heights, width \div 3)) - 1

\* C6: the terrain always has screenWidth heights, each an integer in 3..8.
C6_TerrainShape ==
    /\ Len(heights) = width
    /\ \A i \in 1 .. Len(heights) : heights[i] \in 3 .. 8

\* The terrain has been shifted.
C6_Witness == shifts >= 1 /\ Len(heights) = width

\* C7 (as stated): after n Flying ticks from tick 0 the terrain has shifted
\* n div 2 columns.
C7_ShiftEveryTwoTicks == (~crashed) => shifts = frame \div 2

\* C7 (amended): the terrain shifts one column per 4 game ticks, at ticks
\* 2, 6, 10, ...: after n Flying ticks from tick 0 it has shifted
\* (n + 1) div 4 columns.
C7_ShiftEveryFourTicks == (~crashed) => shifts = (frame + 1) \div 4

\* A Flying run in which the terrain shifted at least twice.
C7_Witness == ~crashed /\ running /\ shifts >= 2 /\ frame % 4 = 3

\* C8: a Flying tick never lowers get_score(), with or without a pickup.
C8_ScoreMonotone ==
    [][(~crashed /\ frame' = frame + 1) =>
         GetScore(distance', time_survived', bonus_points') >= Score]_vars

\* A collectible was picked up and the run flies on.
C8_Witness == ~crashed /\ running /\ sm_collectibles > 0 /\ bonus_points > 0

\* C9: the persisted high score never decreases, within a run and across
\* runs, failed loads and failed saves included.
C9_PersistedNonDecreasing ==
    [][Persisted(score_file') >= Persisted(score_file)]_vars

C11_UpdateLeavesLive ==
    [][frame' # frame =>
         LET old == cm_collectibles
             new == cm_collectibles'
             live == {i \in 1 .. Len(old) : old[i].active /\ old[i].x - 1 >= 0}
         IN  /\ \A i \in 1 .. Len(new) : new[i].active /\ new[i].x >= 0
             /\ Len(new) \in {Cardinality(live), Cardinality(live) + 1}]_vars

\* An update has run after a pickup: the collectible picked up is gone and
\* the field holds another one.
C11_Witness ==
    /\ sm_collectibles > 0
    /\ frame > last_collect_frame
    /\ last_collect_frame >= 0
    /\ Len(cm_collectibles) >= 1

\* C12: check_collision awards and deactivates at most one collectible per
\* call: with the active collectibles within reach of the plane's cell taken
\* in storage order, the call returns the value of the first and deactivates
\* only it, leaving the others as they were; when none is within reach it
\* returns 0 and changes nothing.
C12_FirstMatchOnly ==
    [][(frame' = frame /\ altitude' = altitude) =>
         LET s == cm_collectibles
             px == width \div 3
             py == altitude \div Unit
             hits == {i \in 1 .. Len(s) :
                        /\ s[i].active
                        /\ s[i].x - px \in -ReachX .. ReachX
                        /\ s[i].y - py \in -ReachY .. ReachY}
         IN  IF hits = {}
             THEN /\ cm_collectibles' = s
                  /\ bonus_points' = bonus_points
             ELSE LET k == CHOOSE i \in hits : \A j \in hits : i <= j
                  IN  /\ bonus_points' = bonus_points + s[k].value
                      /\ Len(cm_collectibles') = Len(s)
                      /\ \A i \in 1 .. Len(s) :
                            cm_collectibles'[i] =
                              IF i = k THEN [s[i] EXCEPT !.active = FALSE] ELSE s[i]]_vars

\* Two collectibles were within reach of the plane; the call just made took
\* the first and left the second active.
C12_Witness ==
    /\ Len(cm_collectibles) >= 2
    /\ ~cm_collectibles[1].active
    /\ cm_collectibles[2].active
    /\ \A i \in 1 .. 2 :
          /\ Abs(cm_collectibles[i].x - width \div 3) <= ReachX
          /\ Abs(cm_collectibles[i].y - altitude \div Unit) <= ReachY
    /\ last_collect_frame = frame
    /\ sm_collectibles = 1

\* C20: if the pitch is neutral on every tick and quit is never pressed, the
\* game eventually reaches Crashed, on every screen and terrain; in contrast,
\* holding pitch up forever on a screen of height >= 12 (where the plane
\* resting at the upper clamp is clear of the tallest terrain) never crashes.
C20_NeutralCrashesUpNever ==
    /\ (frame > 0 /\ pitch = 0) ~> crashed
    /\ [](pitch = 1 /\ MinAltitude < height - MaxGround - 1 => ~crashed)

\* C20 (amended): if the pitch is neutral on every tick and quit is never
\* pressed, the game eventually reaches Crashed, on every screen and terrain;
\* in contrast, holding pitch up forever never crashes on a screen of height
\* >= 17, where the plane's start row height div 2 is clear of the tallest
\* terrain (on lower screens the first ticks crash on tall terrain).
C20_NeutralCrashesUpNeverFrom17 ==
    /\ (frame > 0 /\ pitch = 0) ~> crashed
    /\ [](pitch = 1 /\ height - height \div 2 > MaxGround => ~crashed)

\* With no key held the plane has fallen onto the terrain of the tall screen,
\* ticks after the start.
C20_Witness ==
    /\ crashed
    /\ pitch = 0
    /\ height = TallHeight
    /\ distance >= 2

\* C13: on each collectible update at tick t exactly one collectible is
\* appended, at x = screenWidth-1 with y in [5, screenHeight-10], active and
\* worth 50, if and only if t - lastSpawnTick >= 100 (lastSpawnTick then
\* becomes t); otherwise none is added. In the game loop the spawns happen
\* exactly at the Flying ticks 100, 200, 300, ...
C13_SpawnEveryHundred ==
    /\ [][(running /\ ~crashed) =>
           LET old == cm_collectibles
               new == cm_collectibles'
               n == Cardinality({i \in 1 .. Len(old) : old[i].active /\ old[i].x >= 1})
           IN  IF frame - last_spawn >= SpawnInterval
               THEN /\ Len(new) = n + 1
                    /\ new[n + 1].x = width - 1
                    /\ new[n + 1].y \in SpawnTop .. (height - SpawnBottomMargin)
                    /\ new[n + 1].value = CollectibleValue
                    /\ new[n + 1].active \/ last_collect_frame' = frame
                    /\ last_spawn' = frame
               ELSE /\ Len(new) = n
                    /\ last_spawn' = last_spawn]_vars
    /\ []((~crashed /\ frame > 0) =>
            last_spawn = ((frame - 1) \div SpawnInterval) * SpawnInterval)

\* C13 (amended): the same, on a screen of at least 15 rows (where the band
\* [5, screenHeight-10] has a row).
C13_SpawnEveryHundredFrom15 ==
    /\ [][(running /\ ~crashed /\ SpawnTop <= height - SpawnBottomMargin) =>
           LET old == cm_collectibles
               new == cm_collectibles'
               n == Cardinality({i \in 1 .. Len(old) : old[i].active /\ old[i].x >= 1})
           IN  IF frame - last_spawn >= SpawnInterval
               THEN /\ Len(new) = n + 1
                    /\ new[n + 1].x = width - 1
                    /\ new[n + 1].y \in SpawnTop .. (height - SpawnBottomMargin)
                    /\ new[n + 1].value = CollectibleValue
                    /\ new[n + 1].active \/ last_collect_frame' = frame
                    /\ last_spawn' = frame
               ELSE /\ Len(new) = n
                    /\ last_spawn' = last_spawn]_vars
    /\ []((~crashed /\ frame > 0) =>
            last_spawn = ((frame - 1) \div SpawnInterval) * SpawnInterval)

\* The second collectible has just spawned, at tick 200.
C13_Witness ==
    /\ ~crashed
    /\ frame = 2 * SpawnInterval + 1
    /\ last_spawn = 2 * SpawnInterval
    /\ Len(cm_collectibles) = 1
    /\ cm_collectibles[1].x = width - 1

\* C14: after ScoreManager.update(t), distance = t div 2, timeSurvived is
\* t * 0.05 s (5 t hundredths) and getScore is floor(distance +
\* timeSurvived * 10 + bonus), which is 2 * (t div 2) + bonus; at tick 200 with
\* no bonus, distance = 100 and the score is 200.
C14_ScoreFormula ==
    /\ [][(running /\ ~crashed) =>
           /\ distance' = frame \div 2
           /\ time_survived' = frame * FrameCentis
           /\ GetScore(distance', time_survived', bonus_points')
                = 2 * (frame \div 2) + bonus_points']_vars
    /\ []((~crashed /\ frame = 201 /\ bonus_points = 0) =>
            (distance = 100 /\ Score = 200))

\* The state after tick 200 of a flight without pickups.
C14_Witness ==
    /\ ~crashed
    /\ frame = 201
    /\ bonus_points = 0
    /\ distance = 100
    /\ time_survived = 1000
    /\ Score = 200

\* C16: within a Flying tick the sub-steps run in the order physics, terrain
\* advance, collectible update, score recompute, and the collision checks
\* come after all four: a tick whose collectible update fails has moved the
\* plane and the terrain and has not recomputed the score.
C16_ScoreAfterCollectibles ==
    [][(running /\ ~crashed /\ pc' = "ended") =>
         /\ altitude' = PlaneUpdate(altitude, velocity, pitch', height).altitude
         /\ ScrollDue(frame) => offset' # offset
         /\ distance' = distance
         /\ time_survived' = time_survived]_vars

\* C16 (amended): the order is physics, terrain advance, score recompute,
\* collectible update, and the collision checks come after all four: a tick
\* whose collectible update fails has moved the plane and the terrain and
\* recomputed the score and has checked no collision; every other Flying tick
\* tests the ground on the plane and the terrain as updated in that tick.
C16_ScoreBeforeCollectibles ==
    [][(running /\ ~crashed) =>
         /\ altitude' = PlaneUpdate(altitude, velocity, pitch', height).altitude
         /\ ScrollDue(frame) => offset' # offset
         /\ distance' = frame \div 2
         /\ time_survived' = frame * FrameCentis
         /\ IF pc' = "ended"
            THEN /\ UNCHANGED << crashed, checks, frame, last_collect_frame >>
                 /\ \A i \in 1 .. Len(cm_collectibles') : cm_collectibles'[i].active
            ELSE crashed' = (altitude' \div Unit
                               >= height - heights'[width \div 3 + 1] - 1)]_vars

\* The collectible update of tick 100 failed on the low screen: the score of
\* that tick is in the ledger.
C16_Witness ==
    /\ pc = "ended"
    /\ ~crashed
    /\ height = LowHeight
    /\ distance = SpawnInterval \div 2
    /\ time_survived = SpawnInterval * FrameCentis

\* C17: when screenHeight < 15 the spawn band [5, screenHeight-10] is empty: a
\* spawn trigger (the first is at Flying tick 100) adds no collectible and
\* raises an unhandled error that ends the game loop; on no screen is a
\* collectible with y outside [5, screenHeight-10] ever created.
C17_EmptyBandRaises ==
    /\ [][(running /\ ~crashed /\ height < 15 /\ frame - last_spawn >= SpawnInterval) =>
           /\ pc' = "ended"
           /\ cm_collectibles' = << >>
           /\ frame = SpawnInterval]_vars
    /\ [](\A i \in 1 .. Len(cm_collectibles) :
            /\ cm_collectibles[i].y >= 5
            /\ cm_collectibles[i].y <= height - 10)
    /\ [](height < 15 => (cm_collectibles = << >> /\ (crashed \/ frame <= SpawnInterval)))

\* The loop has ended at tick 100 of the low screen, the plane in flight and
\* the field empty.
C17_Witness ==
    /\ pc = "ended"
    /\ ~crashed
    /\ height = LowHeight
    /\ height < 15
    /\ frame = SpawnInterval
    /\ last_spawn = 0
    /\ cm_collectibles = << >>

\* C15: quit ends the loop in the tick in which it is read, in Flying and in
\* Crashed alike: it can be taken on every iteration, and it ends the loop
\* with no physics, terrain, collectible, score or collision processing of
\* that tick.
C15_QuitEndsAtOnce ==
    /\ [][(running /\ pc' = "ended") =>
           UNCHANGED << simvars, pitch, frame, crashed, last_collect_frame,
                        checks, shifts, last_save >>]_vars
    /\ [](running => ENABLED Quit)

\* Quit was read in flight, after ticks that moved the plane.
C15_Witness ==
    /\ pc = "ended"
    /\ ~crashed
    /\ frame > 1
    /\ time_survived = (frame - 1) * FrameCentis
    /\ altitude # (height \div 2) * Unit

\* C19: after any Flying tick that does not crash, floor(altitude) <=
\* screenHeight - 5; equivalently a tick that leaves the plane at the lower
\* clamp (altitude = screenHeight - 3) crashes in that tick, every terrain
\* height being >= 3.
C19_NoFlightNearGround ==
    /\ []((~crashed /\ frame > 0) => altitude \div Unit <= height - 5)
    /\ [][(running /\ ~crashed /\ frame' = frame + 1
           /\ altitude' = (height - 3) * Unit) => crashed']_vars
    /\ [](\A i \in 1 .. Len(heights) : heights[i] >= 3)

\* The plane was driven down to the lower clamp of the tall screen and
\* crashed there.
C19_Witness ==
    /\ crashed
    /\ height = GameHeight
    /\ altitude = (height - BottomMargin) * Unit
    /\ velocity = 0

\* C18: in every reachable state of the game loop any two collectibles in the
\* live collection have x positions that differ by a positive multiple of
\* 100 and are stored in increasing x order; hence at most one active
\* collectible is within |x - planeX| <= 2 of the plane in any tick.
C18_CollectiblesApart ==
    LET s == cm_collectibles
    IN  /\ \A i, j \in 1 .. Len(s) :
              i < j => /\ s[j].x - s[i].x > 0
                       /\ (s[j].x - s[i].x) % 100 = 0
        /\ Cardinality({i \in 1 .. Len(s) :
                          s[i].active /\ Abs(s[i].x - width \div 3) <= 2}) <= 1

\* The collectible spawned at tick 100 is still on screen when the one of
\* tick 200 has spawned.
C18_Witness ==
    /\ Len(cm_collectibles) = 2
    /\ cm_collectibles[1].active
    /\ cm_collectibles[2].active
    /\ cm_collectibles[2].x = cm_collectibles[1].x + SpawnInterval
    /\ ~crashed

====
